---- MODULE Spec2Model ----
(***************************************************************************)
(* A model of flex_version.py: the VersionMeta parser, the comparison and  *)
(* range algorithm (VersionMeta.compares / in_range, driven by the global  *)
(* FlexVersion.ordered_suffix), VersionMeta.substitute and add, and the    *)
(* VersionDelta algebra.                                                   *)
(*                                                                         *)
(* Python values are modelled as follows.                                  *)
(*   str            a sequence of one-character strings                    *)
(*   Optional[x]    <<>> for None, <<x>> for a present value               *)
(*   a call         [err |-> "" , val |-> v] when it returns v,            *)
(*                  [err |-> e, val |-> 0] when it raises the exception    *)
(*                  named e ("ValueError", "AssertionError")               *)
(***************************************************************************)
EXTENDS Integers, Sequences, FiniteSets, TLC

VARIABLES
    ordered_suffix,  \* FlexVersion.ordered_suffix (class attribute)
    va, vb,          \* two VersionMeta objects held by the caller
    d1, d2,          \* two VersionDelta objects held by the caller
    inp,             \* a version string handed to the parser
    out              \* the last call: its name, its arguments, its result

vars == <<ordered_suffix, va, vb, d1, d2, inp, out>>

-----------------------------------------------------------------------------
(* Optional values and call results *)

None == <<>>

Some(x) == <<x>>

IsNone(o) == o = <<>>

Get(o) == o[1]

\* The value of e, computed once: The({f(x) : x \in {e}}) is f(e).
The(S) == CHOOSE x \in S : TRUE

Ok(v) == [err |-> "", val |-> v]

Raise(e) == [err |-> e, val |-> 0]

Returned(r) == r.err = ""

NoCall == [op |-> "none"]

-----------------------------------------------------------------------------
(* Characters and strings *)

\* The characters the model uses, in code point order (Python compares
\* str values by code point).
CharOrder == <<" ", "-", ".", "0", "1", "2", "3", "4", "5", "6", "7", "8", "9", "a", "b", "c">>

Code(c) == CHOOSE i \in 1..Len(CharOrder) : CharOrder[i] = c

Digits == {"0", "1", "2", "3", "4", "5", "6", "7", "8", "9"}

DigitVal(c) == Code(c) - Code("0")

Min(m, n) == IF m < n THEN m ELSE n

\* The three-way comparison with the two outcomes exchanged.
StrCmp_swapped(s, t) ==
    The({IF diff = {}
         THEN (IF Len(s) < Len(t) THEN 1 ELSE IF Len(s) > Len(t) THEN -1 ELSE 0)
         ELSE The({IF Code(s[i]) < Code(t[i]) THEN 1 ELSE -1 :
                   i \in {CHOOSE j \in diff : \A k \in diff : j <= k}}) :
         diff \in {{i \in 1..Min(Len(s), Len(t)) : s[i] # t[i]}}})

\* 1 if s > t else -1 if s < t else 0, for two str.
StrCmp(s, t) ==
    The({IF diff = {}
         THEN (IF Len(s) < Len(t) THEN -1 ELSE IF Len(s) > Len(t) THEN 1 ELSE 0)
         ELSE The({IF Code(s[i]) < Code(t[i]) THEN -1 ELSE 1 :
                   i \in {CHOOSE j \in diff : \A k \in diff : j <= k}}) :
         diff \in {{i \in 1..Min(Len(s), Len(t)) : s[i] # t[i]}}})

\* int(s) for a non-empty string of decimal digits.
RECURSIVE ToInt(_)
ToInt(s) ==
    IF s = <<>> THEN 0
    ELSE 10 * ToInt(SubSeq(s, 1, Len(s) - 1)) + DigitVal(s[Len(s)])

\* The characters str.strip removes in _trim_field.
TrimChars == {" ", "-", "."}

\* field.strip(' \r\n-.') (the model's strings hold no \r or \n).
Strip(s) ==
    The({IF keep = {} THEN <<>>
         ELSE SubSeq(s, CHOOSE i \in keep : \A k \in keep : i <= k,
                        CHOOSE i \in keep : \A k \in keep : k <= i) :
         keep \in {{i \in 1..Len(s) : s[i] \notin TrimChars}}})

_trim_field(field) ==
    The({IF IsNone(f) THEN None ELSE Some(Strip(Get(f))) : f \in {field}})

\* The length of the longest run of digits of s that starts at position i.
DigitRun(s, i) ==
    The({IF stops = {} THEN (IF i > Len(s) THEN 0 ELSE Len(s) - i + 1)
         ELSE (CHOOSE j \in stops : \A k \in stops : j <= k) - i :
         stops \in {{j \in i..Len(s) : s[j] \notin Digits}}})

\* Whether (\.\d+) matches at position i.
DotNum(s, i) == i <= Len(s) /\ s[i] = "." /\ DigitRun(s, i + 1) >= 1

\* Whether (?P<major>\d+)(?P<minor>\.\d+) matches at position i: \d+ is
\* followed by \. and so can only be the whole run of digits.
MajorMinorAt(s, i) ==
    \E n \in {DigitRun(s, i)} : n >= 1 /\ DotNum(s, i + n)

-----------------------------------------------------------------------------
(* VersionMeta.__init__: the parser *)

\* The ends p of the candidates for (?P<prefix>.*\-): s[p] is the hyphen and
\* the rest of the pattern's mandatory part matches right after it.
PrefixEnds(s) == {p \in 1..Len(s) : s[p] = "-" /\ MajorMinorAt(s, p + 1)}

\* re.match(_v_regex, s): None when nothing matches, else the end of the
\* prefix group (0 when the group took no part). The group is optional and
\* greedy, so the longest prefix that lets the rest match wins, and the
\* match without a prefix is tried last.
re_match(s) ==
    The({IF ends # {}
         THEN Some(CHOOSE p \in ends : \A q \in ends : q <= p)
         ELSE IF MajorMinorAt(s, 1) THEN Some(0) ELSE None :
         ends \in {PrefixEnds(s)}})

\* The position after the (\.\d+) that starts at position i.
AfterNum(s, i) == i + 1 + DigitRun(s, i + 1)

\* The position after an optional (\.\d+)? tried at position i.
OptAfterNum(s, i) == IF DotNum(s, i) THEN AfterNum(s, i) ELSE i

\* Where the groups of a match whose prefix ends at p start: major, minor,
\* maintenance, build and suffix_raw, each \d+ taking its whole run.
GroupStarts(s, p) ==
    The({The({The({The({<<p + 1, i2, i3, i4, i5>> :
        i5 \in {OptAfterNum(s, i4)}}) :
        i4 \in {OptAfterNum(s, i3)}}) :
        i3 \in {AfterNum(s, i2)}}) :
        i2 \in {p + 1 + DigitRun(s, p + 1)}})

\* int(_trim_field(group)) for a numeric group that took part in the match.
IntOf(g) == The({Some(ToInt(Get(f))) : f \in {_trim_field(g)}})

\* The number of leading non-digits of raw: what [^\d]* takes.
NonDigitRun(raw) ==
    The({IF digs = {} THEN Len(raw)
         ELSE (CHOOSE j \in digs : \A k \in digs : j <= k) - 1 :
         digs \in {{j \in 1..Len(raw) : raw[j] \in Digits}}})

\* re.match(_suffix_regex, raw) for a non-empty raw: [^\d]* then (\d+)?.
SuffixFields(raw) ==
    The({[suffix |-> _trim_field(Some(SubSeq(raw, 1, n))),
          suffix_version |->
              IF DigitRun(raw, n + 1) >= 1
              THEN Some(ToInt(SubSeq(raw, n + 1, n + DigitRun(raw, n + 1))))
              ELSE None] :
         n \in {NonDigitRun(raw)}})

\* The fields __init__ sets from a match whose groups start at g.
MatchedFields(s, p, g) ==
    LET hasMaint == g[4] > g[3]
        hasBuild == g[5] > g[4]
        hasSuffix == g[5] <= Len(s) /\ s[g[5]] = "-"
        m_prefix == IF p = 0 THEN None ELSE Some(SubSeq(s, 1, p))
        m_suffix_raw == IF hasSuffix THEN Some(SubSeq(s, g[5], Len(s))) ELSE None
        sf == The({IF IsNone(raw) \/ Get(raw) = <<>>
                   THEN [suffix |-> None, suffix_version |-> None]
                   ELSE SuffixFields(Get(raw)) :
                   raw \in {_trim_field(m_suffix_raw)}})
    IN  The({[prefix |-> _trim_field(m_prefix),
              major |-> IntOf(Some(SubSeq(s, g[1], g[2] - 1))),
              minor |-> IntOf(Some(SubSeq(s, g[2], g[3] - 1))),
              maintenance |->
                  IF hasMaint THEN IntOf(Some(SubSeq(s, g[3], g[4] - 1))) ELSE None,
              build |->
                  IF hasBuild THEN IntOf(Some(SubSeq(s, g[4], g[5] - 1))) ELSE None,
              suffix |-> x.suffix,
              suffix_version |-> x.suffix_version] :
             x \in {sf}})

\* VersionMeta(version_str): the object's fields, or ValueError.
VersionMeta(s) ==
    The({IF IsNone(matched) THEN Raise("ValueError")
         ELSE The({Ok(MatchedFields(s, Get(matched), g)) :
                   g \in {GroupStarts(s, Get(matched))}}) :
         matched \in {re_match(s)}})

-----------------------------------------------------------------------------
(* The module-level helpers on Optional[int] *)

\* none_as if v is None else v
NoneAs(v, none_as) == IF IsNone(v) THEN none_as ELSE v

\* _cmp with the "less" case lost: every difference reads as "greater".
_cmp_no_less(x, y) == IF x = y THEN 0 ELSE 1

_cmp(x, y) == IF x = y THEN 0 ELSE IF x > y THEN 1 ELSE -1

_verdiff(v1, v2, none_as) ==
    LET a == NoneAs(v1, none_as)
        b == NoneAs(v2, none_as)
    IN  IF IsNone(a) \/ IsNone(b) THEN None ELSE Some(Get(a) - Get(b))

_veradd(v1, v2, none_as) ==
    LET a == NoneAs(v1, none_as)
        b == NoneAs(v2, none_as)
    IN  IF IsNone(a) \/ IsNone(b) THEN None ELSE Some(Get(a) + Get(b))

\* _verrev with the sign lost.
_verrev_keep(v1, none_as) == NoneAs(v1, none_as)

_verrev(v1, none_as) ==
    LET a == NoneAs(v1, none_as)
    IN  IF IsNone(a) THEN None ELSE Some(-Get(a))

_verabs(v1, none_as) ==
    LET a == NoneAs(v1, none_as)
    IN  IF IsNone(a) THEN None ELSE IF Get(a) > 0 THEN a ELSE Some(-Get(a))

_vermul(v1, integer, none_as) ==
    LET a == NoneAs(v1, none_as)
    IN  IF IsNone(a) THEN None ELSE Some(Get(a) + integer)

-----------------------------------------------------------------------------
(* VersionDelta *)

\* VersionDelta(major, minor, maintenance, build, sver)
VersionDelta(major, minor, maintenance, build, sver) ==
    [major |-> major, minor |-> minor, maintenance |-> maintenance,
     build |-> build, sver |-> sver]

DeltaFields == <<"major", "minor", "maintenance", "build", "sver">>

\* VersionDelta.zero
zero == VersionDelta(Some(0), Some(0), Some(0), Some(0), Some(0))

\* VersionDelta._getstate(none_as): the tuple of the fields, in order.
_getstate(d, none_as) == [i \in 1..Len(DeltaFields) |-> NoneAs(d[DeltaFields[i]], none_as)]

\* _cmp on two tuples of int of the same length: Python's lexicographic
\* tuple comparison.
TupleCmp(s, t) ==
    The({IF diff = {} THEN 0
         ELSE The({_cmp(Get(s[i]), Get(t[i])) :
                   i \in {CHOOSE j \in diff : \A k \in diff : j <= k}}) :
         diff \in {{i \in 1..Len(s) : s[i] # t[i]}}})

\* VersionDelta._cmp
Delta_cmp(self, other) ==
    The({TupleCmp(s, t) :
         s \in {_getstate(self, Some(0))}, t \in {_getstate(other, Some(0))}})

\* VersionDelta.__eq__
Delta__eq__(self, other) == Delta_cmp(self, other) = 0

\* VersionDelta.__add__
Delta__add__(self, other) ==
    VersionDelta(_veradd(self.major, other.major, None),
                 _veradd(self.minor, other.minor, None),
                 _veradd(self.maintenance, other.maintenance, None),
                 _veradd(self.build, other.build, None),
                 _veradd(self.sver, other.sver, None))

\* VersionDelta.__neg__
Delta__neg__(self) ==
    VersionDelta(_verrev(self.major, None),
                 _verrev(self.minor, None),
                 _verrev(self.maintenance, None),
                 _verrev(self.build, None),
                 _verrev(self.sver, None))

\* VersionDelta.__abs__
Delta__abs__(self) ==
    VersionDelta(_verabs(self.major, None),
                 _verabs(self.minor, None),
                 _verabs(self.maintenance, None),
                 _verabs(self.build, None),
                 _verabs(self.sver, None))

\* VersionDelta.__mul__ for an int operand
Delta__mul__(self, other) ==
    VersionDelta(_vermul(self.major, other, None),
                 _vermul(self.minor, other, None),
                 _vermul(self.maintenance, other, None),
                 _vermul(self.build, other, None),
                 _vermul(self.sver, other, None))

\* Python's truth value of an Optional[int]: None and 0 are false.
Truthy(v) == ~IsNone(v) /\ Get(v) # 0

\* VersionDelta.__bool__
Delta__bool__(self) ==
    \/ ~Truthy(self.major)
    \/ ~Truthy(self.minor)
    \/ ~Truthy(self.maintenance)
    \/ ~Truthy(self.build)
    \/ ~Truthy(self.sver)

-----------------------------------------------------------------------------
(* VersionMeta: substitute, compares, in_range *)

shares_prefix(self, other) == self.prefix = other.prefix

shares_suffix(self, other) == self.suffix = other.suffix

\* VersionMeta.substitute
substitute(self, other, ignore_prefix, ignore_suffix) ==
    IF ~ignore_prefix /\ self.prefix # other.prefix THEN Raise("ValueError")
    ELSE IF ~ignore_suffix /\ self.suffix # other.suffix THEN Raise("ValueError")
    ELSE Ok(VersionDelta(
            _verdiff(self.major, other.major, None),
            _verdiff(self.minor, other.minor, None),
            _verdiff(self.maintenance, other.maintenance, None),
            _verdiff(self.build, other.build, None),
            IF ignore_suffix THEN None
            ELSE _verdiff(self.suffix_version, other.suffix_version, None)))

\* list.index(x): the first position of x (from 0), or ValueError.
ListIndex(list, x) ==
    The({IF at = {} THEN Raise("ValueError")
         ELSE Ok((CHOOSE i \in at : \A k \in at : i <= k) - 1) :
         at \in {{i \in 1..Len(list) : list[i] = x}}})

\* '' if s is None else s
NoneAsEmpty(s) == IF IsNone(s) THEN <<>> ELSE Get(s)

\* The last step of compares: the sign of the suffix version difference, a
\* difference of None read as zero.
SuffixVersionCompare(self, other) ==
    The({IF IsNone(sver) \/ Get(sver) = 0 THEN 0
         ELSE IF Get(sver) > 0 THEN 1 ELSE -1 :
         sver \in {_verdiff(self.suffix_version, other.suffix_version, None)}})

\* SuffixCompare with the configured order read backwards: the later label
\* is the smaller.
SuffixCompare_reversed(self, other, osfx) ==
    IF ~IsNone(osfx)
    THEN The({IF ~Returned(i1) \/ ~Returned(i2) THEN Raise("ValueError")
              ELSE IF i2.val - i1.val # 0 THEN Ok(i2.val - i1.val)
              ELSE Ok(SuffixVersionCompare(self, other)) :
              i1 \in {ListIndex(Get(osfx), self.suffix)},
              i2 \in {ListIndex(Get(osfx), other.suffix)}})
    ELSE The({IF suffix_res # 0 THEN Ok(suffix_res)
              ELSE Ok(SuffixVersionCompare(self, other)) :
              suffix_res \in {StrCmp(NoneAsEmpty(self.suffix),
                                     NoneAsEmpty(other.suffix))}})

\* The suffix step of compares, reached when the numeric fields tie and
\* the suffix is not ignored; osfx is FlexVersion.ordered_suffix, a list
\* when it is set.
SuffixCompare(self, other, osfx) ==
    IF ~IsNone(osfx)
    THEN The({IF ~Returned(i1) \/ ~Returned(i2) THEN Raise("ValueError")
              ELSE IF i1.val - i2.val # 0 THEN Ok(i1.val - i2.val)
              ELSE Ok(SuffixVersionCompare(self, other)) :
              i1 \in {ListIndex(Get(osfx), self.suffix)},
              i2 \in {ListIndex(Get(osfx), other.suffix)}})
    ELSE The({IF suffix_res # 0 THEN Ok(suffix_res)
              ELSE Ok(SuffixVersionCompare(self, other)) :
              suffix_res \in {StrCmp(NoneAsEmpty(self.suffix),
                                     NoneAsEmpty(other.suffix))}})

\* VersionMeta.compares; osfx is FlexVersion.ordered_suffix. delta >
\* VersionDelta.zero and delta < VersionDelta.zero both read the sign of
\* delta._cmp(VersionDelta.zero).
compares(self, other, ignore_suffix, osfx) ==
    IF ~shares_prefix(self, other)
    THEN Ok(StrCmp(NoneAsEmpty(self.prefix), NoneAsEmpty(other.prefix)))
    ELSE
    The({IF sign > 0 THEN Ok(1)
         ELSE IF sign < 0 THEN Ok(-1)
         ELSE IF ignore_suffix THEN Ok(0)
         ELSE SuffixCompare(self, other, osfx) :
         sign \in {Delta_cmp(substitute(self, other, FALSE, TRUE).val, zero)}})

\* in_range with the range check made strict: minv >= maxv is refused.
in_range_strict(self, minv, maxv, ignore_suffix, osfx) ==
    LET lim == compares(minv, maxv, ignore_suffix, osfx)
        hi  == compares(self, maxv, ignore_suffix, osfx)
        lo  == compares(self, minv, ignore_suffix, osfx)
    IN  IF ~(shares_prefix(self, minv) /\ shares_prefix(self, maxv)) THEN Ok(FALSE)
        ELSE IF ~Returned(lim) THEN Raise("ValueError")
        ELSE IF lim.val >= 0 THEN Raise("ValueError")
        ELSE IF ~Returned(hi) THEN Raise("ValueError")
        ELSE IF ~(hi.val <= 0) THEN Ok(FALSE)
        ELSE IF ~Returned(lo) THEN Raise("ValueError")
        ELSE Ok(0 <= lo.val)

\* VersionMeta.in_range; osfx is FlexVersion.ordered_suffix.
in_range(self, minv, maxv, ignore_suffix, osfx) ==
    LET lim == compares(minv, maxv, ignore_suffix, osfx)
        hi  == compares(self, maxv, ignore_suffix, osfx)
        lo  == compares(self, minv, ignore_suffix, osfx)
    IN  IF ~(shares_prefix(self, minv) /\ shares_prefix(self, maxv)) THEN Ok(FALSE)
        ELSE IF ~Returned(lim) THEN Raise("ValueError")
        ELSE IF lim.val > 0 THEN Raise("ValueError")
        ELSE IF ~Returned(hi) THEN Raise("ValueError")
        ELSE IF ~(hi.val <= 0) THEN Ok(FALSE)
        ELSE IF ~Returned(lo) THEN Raise("ValueError")
        ELSE Ok(0 <= lo.val)

\* The fields VersionMeta.add assigns, in the order it assigns them, and
\* the field of the delta each is computed from.
AddFields == <<"major", "minor", "maintenance", "build", "suffix_version">>

DeltaField(f) == IF f = "suffix_version" THEN "sver" ELSE f

\* _verplus with its assertion taken out: a negative sum is returned.
_verplus_unchecked(v, d) ==
    Ok(IF IsNone(v) THEN d
       ELSE IF ~IsNone(d) THEN Some(Get(v) + Get(d)) ELSE v)

\* _verplus, local to VersionMeta.add:
\*   res = d if v is None else v + d if d is not None else v
\*   assert res is None or res >= 0
_verplus(v, d) ==
    The({IF IsNone(res) \/ Get(res) >= 0 THEN Ok(res) ELSE Raise("AssertionError") :
         res \in {IF IsNone(v) THEN d
                  ELSE IF ~IsNone(d) THEN Some(Get(v) + Get(d)) ELSE v}})

\* Object obj after the first n assignments of add, plus[i] the value of
\* the i-th right-hand side.
Assigned(obj, plus, n) ==
    [f \in DOMAIN obj |->
        IF \E i \in 1..n : AddFields[i] = f
        THEN plus[CHOOSE i \in 1..n : AddFields[i] = f].val
        ELSE obj[f]]

\* The body of VersionMeta.add from its first assignment on: it reads self
\* and delta and writes to cloned. The result is the object cloned as the
\* body leaves it and what the call returns or raises; an assertion that
\* fails leaves cloned with the assignments made before it.
add_body(cloned, self, delta, suffix) ==
    The({The({IF k <= Len(AddFields)
              THEN [cloned |-> Assigned(cloned, plus, k - 1),
                    res |-> Raise("AssertionError")]
              ELSE The({IF ~IsNone(c.suffix_version) /\ IsNone(suffix) /\ IsNone(c.suffix)
                        THEN [cloned |-> c, res |-> Raise("ValueError")]
                        ELSE IF ~IsNone(c.suffix_version) /\ ~IsNone(suffix)
                        THEN The({[cloned |-> c2, res |-> Ok(c2)] :
                                  c2 \in {[c EXCEPT !.suffix = suffix]}})
                        ELSE [cloned |-> c, res |-> Ok(c)] :
                        c \in {Assigned(cloned, plus, Len(AddFields))}}) :
              k \in {CHOOSE j \in 1..(Len(AddFields) + 1) :
                        /\ j <= Len(AddFields) => ~Returned(plus[j])
                        /\ \A i \in 1..(j - 1) : Returned(plus[i])}}) :
         plus \in {[i \in 1..Len(AddFields) |->
                      _verplus(self[AddFields[i]], delta[DeltaField(AddFields[i])])]}})

\* VersionMeta.add with cloned = self in place of the deep copy: the
\* assignments reach the receiver.
add_in_place(self, delta, suffix) ==
    The({[self |-> r.cloned, res |-> r.res] :
         r \in {add_body(self, self, delta, suffix)}})

\* VersionMeta.add(delta, suffix): the receiver as the call leaves it and
\* what the call returns or raises. cloned = copy.deepcopy(self) is an
\* object of its own with the fields of self, so the assignments to cloned
\* leave self as it was.
add(self, delta, suffix) ==
    The({[self |-> self, res |-> r.res] :
         r \in {add_body(self, self, delta, suffix)}})

-----------------------------------------------------------------------------
(* The inputs of the model *)

\* The bound on the size of a version the caller holds (see Size).
MaxSize == 2

\* The bound on the length of a string handed to the parser.
MaxLen == 5

\* The bound on the magnitude of a VersionDelta field and of an int operand.
MaxDelta == 1

\* str(n) for 0 <= n <= 9.
Numeral(n) == <<CharOrder[Code("0") + n]>>

Nums == 0..MaxSize

OptNumerals(lead) == {<<>>} \cup {lead \o Numeral(n) : n \in Nums}

\* Version strings of the documented form prefix-x.y.z.b-suffix, with every
\* optional part present or not.
VersionStrings ==
    {p \o Numeral(x) \o <<".">> \o Numeral(y) \o z \o b \o s \o n :
        p \in {<<>>, <<"-">>, <<"a", "-">>, <<"b", "-">>},
        x \in Nums, y \in Nums,
        z \in OptNumerals(<<".">>), b \in OptNumerals(<<".">>),
        s \in {<<>>, <<"-">>, <<"-", "a">>, <<"-", "b">>},
        n \in OptNumerals(<<>>)}

OptSize(v) == IF IsNone(v) THEN 0 ELSE 1 + Get(v)

\* The size of a version: the sum of its numbers and the length of its
\* prefix, plus one for each of the optional parts prefix, maintenance,
\* build and suffix that it has.
Size(v) ==
    Get(v.major) + Get(v.minor) + OptSize(v.maintenance) + OptSize(v.build)
    + (IF IsNone(v.prefix) THEN 0 ELSE 1 + Len(Get(v.prefix)))
    + (IF IsNone(v.suffix) THEN 0 ELSE 1 + Get(NoneAs(v.suffix_version, Some(0))))

\* The VersionMeta objects the caller may hold: the parsed version strings
\* of bounded size.
Versions ==
    {r.val : r \in {q \in {VersionMeta(s) : s \in VersionStrings} :
                        Returned(q) /\ Size(q.val) <= MaxSize}}

\* The values the caller assigns to FlexVersion.ordered_suffix: unset, a
\* list of every suffix of Versions, and lists that leave some out.
SuffixOrders ==
    {None,
     Some(<<None, Some(<<>>), Some(<<"a">>), Some(<<"b">>)>>),
     Some(<<Some(<<"b">>), Some(<<"a">>), None>>),
     Some(<<Some(<<"a">>)>>)}

\* All strings over the parser's test alphabet of length at most MaxLen.
ParseAlphabet == {"a", "0", "1", "-", "."}

Strings == UNION {[1..n -> ParseAlphabet] : n \in 0..MaxLen}

OptInts == {None} \cup {Some(n) : n \in -MaxDelta..MaxDelta}

\* The VersionDelta objects the caller builds as the first operand.
Deltas == {VersionDelta(a, b, c, d, e) :
              a \in OptInts, b \in OptInts, c \in OptInts, d \in OptInts, e \in OptInts}

\* The ones it builds as the second operand: VersionDelta(), VersionDelta.zero
\* and the other deltas with the same value in every field.
DeltaOperands == {VersionDelta(x, x, x, x, x) : x \in OptInts}

\* The int operands of a multiplication.
IntOperands == -MaxDelta..(MaxDelta + 1)

\* The suffix arguments of VersionMeta.add: the default and a label.
SuffixArgs == {None, Some(<<"a">>)}

\* The versions the caller holds where it makes calls of every kind on
\* them: those below the bound on the size.
FrameVersions == {v \in Versions : Size(v) < MaxSize}

\* The strings it hands to the parser there: one that parses, one that does
\* not.
FrameStrings == {<<"0", ".", "1">>, <<"0">>}

-----------------------------------------------------------------------------
(* The calls *)

Slot(x) == IF x = "a" THEN va ELSE vb

\* FlexVersion.ordered_suffix = value
SetOrderedSuffix(value) ==
    /\ ordered_suffix' = value
    /\ out' = NoCall
    /\ UNCHANGED <<va, vb, d1, d2, inp>>

\* FlexVersion.compares(va, vb, ignore_suffix)
Compares(ignore_suffix) ==
    /\ out = NoCall
    /\ out' = [op |-> "compares", ignore_suffix |-> ignore_suffix,
               res |-> compares(va, vb, ignore_suffix, ordered_suffix)]
    /\ UNCHANGED <<ordered_suffix, va, vb, d1, d2, inp>>

\* FlexVersion.in_range(va, minv, maxv, ignore_suffix), minv and maxv each
\* one of the caller's two objects
InRange(minv, maxv, ignore_suffix) ==
    /\ out = NoCall
    /\ out' = [op |-> "in_range", minv |-> minv, maxv |-> maxv,
               ignore_suffix |-> ignore_suffix,
               res |-> in_range(va, Slot(minv), Slot(maxv), ignore_suffix,
                                ordered_suffix)]
    /\ UNCHANGED <<ordered_suffix, va, vb, d1, d2, inp>>

\* FlexVersion.parse(inp)
Parse ==
    /\ out = NoCall
    /\ out' = [op |-> "parse", res |-> VersionMeta(inp)]
    /\ UNCHANGED <<ordered_suffix, va, vb, d1, d2, inp>>

\* d2 = -d1
DeltaNeg ==
    /\ out = NoCall
    /\ d2' = Delta__neg__(d1)
    /\ UNCHANGED <<ordered_suffix, va, vb, d1, inp, out>>

\* d1 + d2
DeltaAdd ==
    /\ out = NoCall
    /\ out' = [op |-> "add", res |-> Delta__add__(d1, d2)]
    /\ UNCHANGED <<ordered_suffix, va, vb, d1, d2, inp>>

\* d1 * k
DeltaMul(k) ==
    /\ out = NoCall
    /\ out' = [op |-> "mul", k |-> k, res |-> Delta__mul__(d1, k)]
    /\ UNCHANGED <<ordered_suffix, va, vb, d1, d2, inp>>

\* bool(d1)
DeltaBool ==
    /\ out = NoCall
    /\ out' = [op |-> "bool", res |-> Delta__bool__(d1)]
    /\ UNCHANGED <<ordered_suffix, va, vb, d1, d2, inp>>

\* va.add(d1, suffix)
Add(suffix) ==
    /\ out = NoCall
    /\ \E r \in {add(va, d1, suffix)} :
          /\ va' = r.self
          /\ out' = [op |-> "VersionMeta.add", suffix |-> suffix, res |-> r.res]
    /\ UNCHANGED <<ordered_suffix, vb, d1, d2, inp>>

\* va = va.add(d1, suffix): the caller keeps the version an addition
\* returned, as long as it is within the bound on the versions it holds.
Keep ==
    /\ out.op = "VersionMeta.add"
    /\ Returned(out.res)
    /\ Size(out.res.val) <= MaxSize
    /\ va' = out.res.val
    /\ out' = NoCall
    /\ UNCHANGED <<ordered_suffix, vb, d1, d2, inp>>

\* The caller drops the result of an addition, or catches its error.
Discard ==
    /\ out.op = "VersionMeta.add"
    /\ out' = NoCall
    /\ UNCHANGED <<ordered_suffix, va, vb, d1, d2, inp>>

\* va.substitute(vb, ignore_prefix, ignore_suffix)
Substitute(ignore_prefix, ignore_suffix) ==
    /\ out = NoCall
    /\ out' = [op |-> "substitute", ignore_prefix |-> ignore_prefix,
               ignore_suffix |-> ignore_suffix,
               res |-> substitute(va, vb, ignore_prefix, ignore_suffix)]
    /\ UNCHANGED <<ordered_suffix, va, vb, d1, d2, inp>>

DefaultVersion == VersionMeta(<<"0", ".", "0">>).val

\* The comparator: the caller holds two parsed versions, sets the suffix
\* order and calls compares and in_range.
Init ==
    /\ ordered_suffix = None
    /\ va \in Versions
    /\ vb \in Versions
    /\ d1 = zero
    /\ d2 = zero
    /\ inp = <<>>
    /\ out = NoCall

Next ==
    \/ \E value \in SuffixOrders : SetOrderedSuffix(value)
    \/ \E ignore_suffix \in BOOLEAN : Compares(ignore_suffix)
    \/ \E minv \in {"a", "b"}, maxv \in {"a", "b"}, ignore_suffix \in BOOLEAN :
          InRange(minv, maxv, ignore_suffix)

Spec == Init /\ [][Next]_vars

\* The parser alone: the caller hands it a string.
InitParse ==
    /\ ordered_suffix = None
    /\ va = DefaultVersion
    /\ vb = DefaultVersion
    /\ d1 = zero
    /\ d2 = zero
    /\ inp \in Strings
    /\ out = NoCall

NextParse == Parse

SpecParse == InitParse /\ [][NextParse]_vars

\* The delta algebra alone: the caller holds two deltas.
InitDelta ==
    /\ ordered_suffix = None
    /\ va = DefaultVersion
    /\ vb = DefaultVersion
    /\ d1 \in Deltas
    /\ d2 \in DeltaOperands
    /\ inp = <<>>
    /\ out = NoCall

NextDelta ==
    \/ DeltaNeg
    \/ DeltaAdd
    \/ \E k \in IntOperands : DeltaMul(k)
    \/ DeltaBool

SpecDelta == InitDelta /\ [][NextDelta]_vars

\* Addition alone: the caller holds a parsed version and a delta, adds the
\* delta and goes on from the version the addition returned.
InitAdd ==
    /\ ordered_suffix = None
    /\ va \in Versions
    /\ vb = DefaultVersion
    /\ d1 \in Deltas
    /\ d2 = zero
    /\ inp = <<>>
    /\ out = NoCall

NextAdd ==
    \/ \E suffix \in SuffixArgs : Add(suffix)
    \/ Keep
    \/ Discard

SpecAdd == InitAdd /\ [][NextAdd]_vars

\* Calls of every kind: the caller holds two versions, a delta and a
\* string, and calls parse, compares, in_range, substitute and add on them
\* between assignments to FlexVersion.ordered_suffix.
InitFrame ==
    /\ ordered_suffix = None
    /\ va \in FrameVersions
    /\ vb \in FrameVersions
    /\ d1 \in DeltaOperands
    /\ d2 = zero
    /\ inp \in FrameStrings
    /\ out = NoCall

NextFrame ==
    \/ \E value \in SuffixOrders : SetOrderedSuffix(value)
    \/ Parse
    \/ \E ignore_suffix \in BOOLEAN : Compares(ignore_suffix)
    \/ \E minv \in {"a", "b"}, maxv \in {"a", "b"}, ignore_suffix \in BOOLEAN :
          InRange(minv, maxv, ignore_suffix)
    \/ \E ignore_prefix \in BOOLEAN, ignore_suffix \in BOOLEAN :
          Substitute(ignore_prefix, ignore_suffix)
    \/ \E suffix \in SuffixArgs : Add(suffix)

SpecFrame == InitFrame /\ [][NextFrame]_vars

-----------------------------------------------------------------------------
(* Properties of compares and in_range, checked under Spec *)

CalledCompares == out.op = "compares"

\* C1: compares is transitive on same-prefix versions with the suffix not
\* ignored and ordered_suffix fixed: when compares(va, vb) <= 0, then for
\* every version c with compares(vb, c) <= 0 also compares(va, c) <= 0,
\* absent numeric fields and absent suffix versions included.
C1_Transitive ==
    (/\ CalledCompares
     /\ ~out.ignore_suffix
     /\ shares_prefix(va, vb)
     /\ Returned(out.res)
     /\ out.res.val <= 0)
    => \A c \in Versions :
         LET bc == compares(vb, c, FALSE, ordered_suffix)
             ac == compares(va, c, FALSE, ordered_suffix)
         IN  (shares_prefix(vb, c) /\ Returned(bc) /\ Returned(ac) /\ bc.val <= 0)
             => ac.val <= 0

\* C2: compares is antisymmetric on same-prefix versions: when compares(va, vb)
\* and compares(vb, va) both return under the same ordered_suffix and the same
\* ignore_suffix, the one is the negation of the other.
C2_Antisymmetric ==
    (CalledCompares /\ shares_prefix(va, vb) /\ Returned(out.res))
    => LET ba == compares(vb, va, out.ignore_suffix, ordered_suffix)
       IN  Returned(ba) => out.res.val = -ba.val

\* C2's case: a suffix order is configured, the numeric fields tie and the
\* two suffixes decide the result, which is negative.
C2_Witness ==
    /\ CalledCompares
    /\ shares_prefix(va, vb)
    /\ ~IsNone(ordered_suffix)
    /\ ~out.ignore_suffix
    /\ va.suffix # vb.suffix
    /\ Returned(out.res)
    /\ out.res.val < 0

\* C3: a value compares returns is one of -1, 0 and 1.
C3_TriState ==
    (CalledCompares /\ Returned(out.res)) => out.res.val \in {-1, 0, 1}

\* s < t in the lexicographic order of str: s and t agree before some
\* position of t, where s has ended or holds the smaller character.
LexLess(s, t) ==
    \E i \in 1..Len(t) :
        /\ \A k \in 1..(i - 1) : k <= Len(s) /\ s[k] = t[k]
        /\ (i > Len(s) \/ Code(s[i]) < Code(t[i]))

CalledSelfRange ==
    out.op = "in_range" /\ Slot(out.minv) = va /\ Slot(out.maxv) = va

\* Whether list.index finds suffix label s in the configured order.
Listed(s) == \E i \in 1..Len(Get(ordered_suffix)) : Get(ordered_suffix)[i] = s

\* C5 as stated: in_range(v, v, v) returns true under every ordered_suffix
\* and both values of ignore_suffix; it never returns false, never fails.
C5_SelfRangeTrue ==
    CalledSelfRange => (Returned(out.res) /\ out.res.val)

\* C5 as amended: in_range(v, v, v) returns true when ordered_suffix is
\* unset, when ignore_suffix is true, or when v's suffix (None for an absent
\* one) is in the configured list; it fails with the lookup's ValueError when
\* the suffix is not ignored and the list lacks v's suffix. It never returns
\* false.
C5_SelfRangeListed ==
    CalledSelfRange
    => IF IsNone(ordered_suffix) \/ out.ignore_suffix \/ Listed(va.suffix)
       THEN Returned(out.res) /\ out.res.val
       ELSE out.res.err = "ValueError"

\* C5's case: a configured list that holds v's suffix, the suffix not
\* ignored, and in_range(v, v, v) has returned.
C5_Witness ==
    /\ CalledSelfRange
    /\ ~IsNone(ordered_suffix)
    /\ ~out.ignore_suffix
    /\ ~IsNone(va.suffix)
    /\ ~IsNone(va.maintenance)
    /\ Returned(out.res)

\* The numeric fields of va and vb tie, an absent field taken as zero.
NumericTie ==
    \A f \in {"major", "minor", "maintenance", "build"} :
        Get(NoneAs(va[f], Some(0))) = Get(NoneAs(vb[f], Some(0)))

\* The positions of suffix label s in the configured list.
Positions(s) ==
    {i \in 1..Len(Get(ordered_suffix)) : Get(ordered_suffix)[i] = s}

\* The first of them.
Position(s) == CHOOSE i \in Positions(s) : \A k \in Positions(s) : i <= k

\* The sign the suffix versions of va and vb give: that of their
\* difference, zero when either is absent.
SuffixVersionSign ==
    IF IsNone(va.suffix_version) \/ IsNone(vb.suffix_version) THEN 0
    ELSE IF Get(va.suffix_version) < Get(vb.suffix_version) THEN -1
    ELSE IF Get(va.suffix_version) > Get(vb.suffix_version) THEN 1 ELSE 0

\* C12: when va and vb share their prefix and tie on the numeric fields
\* (absent as zero) and the suffix is not ignored, then under a configured
\* list compares fails if either suffix (None for an absent one) is not in
\* the list, returns a negative value if va's suffix comes first in it, a
\* positive value if vb's does, and the sign of the suffix version
\* difference if the two positions are equal; under no list it orders the
\* suffix labels lexicographically, an absent one as the empty string, and
\* falls back to the suffix versions in the same way.
C12_SuffixOrder ==
    (CalledCompares /\ shares_prefix(va, vb) /\ ~out.ignore_suffix /\ NumericTie)
    => IF ~IsNone(ordered_suffix)
       THEN IF Positions(va.suffix) = {} \/ Positions(vb.suffix) = {}
            THEN ~Returned(out.res)
            ELSE /\ Returned(out.res)
                 /\ IF Position(va.suffix) < Position(vb.suffix) THEN out.res.val < 0
                    ELSE IF Position(va.suffix) > Position(vb.suffix) THEN out.res.val > 0
                    ELSE out.res.val = SuffixVersionSign
       ELSE /\ Returned(out.res)
            /\ IF LexLess(NoneAsEmpty(va.suffix), NoneAsEmpty(vb.suffix))
               THEN out.res.val < 0
               ELSE IF LexLess(NoneAsEmpty(vb.suffix), NoneAsEmpty(va.suffix))
               THEN out.res.val > 0
               ELSE out.res.val = SuffixVersionSign

\* C12's case: under a configured list that places the absent suffix last,
\* a version with a suffix has compared as smaller than the same version
\* without one, against the lexicographic order of the two labels.
C12_Witness ==
    /\ CalledCompares
    /\ ~out.ignore_suffix
    /\ NumericTie
    /\ ~IsNone(ordered_suffix)
    /\ ~IsNone(va.suffix)
    /\ IsNone(vb.suffix)
    /\ IsNone(va.prefix) /\ IsNone(vb.prefix)
    /\ Returned(out.res)
    /\ out.res.val < 0

-----------------------------------------------------------------------------
(* Properties of VersionMeta.add, checked under SpecAdd *)

\* The value field f would have after va.add(d1): va's when the delta has
\* none, else the delta's added to va's, an absent one of va adding nothing.
Resulting(f) ==
    IF IsNone(d1[DeltaField(f)]) THEN va[f]
    ELSE Some(Get(NoneAs(va[f], Some(0))) + Get(d1[DeltaField(f)]))

\* Every numeric field of v that is present is >= 0.
NonNegative(v) ==
    \A i \in 1..Len(AddFields) : IsNone(v[AddFields[i]]) \/ Get(v[AddFields[i]]) >= 0

\* C11: va.add(d1) returns no version when a resulting field of major,
\* minor, maintenance, build or suffix_version would be negative, an absent
\* field of va with a negative field of d1 included; a version it returns
\* has every present numeric field >= 0, and so has every version the
\* caller holds after a parse and any number of additions.
C11_NonNegative ==
    /\ NonNegative(va)
    /\ out.op = "VersionMeta.add"
       => IF \E i \in 1..Len(AddFields) :
                ~IsNone(Resulting(AddFields[i])) /\ Get(Resulting(AddFields[i])) < 0
          THEN ~Returned(out.res)
          ELSE Returned(out.res) => NonNegative(out.res.val)

\* C11's case: va has no maintenance, the delta's maintenance is negative
\* and its major positive, no other field would be negative, and the
\* addition has failed.
C11_Witness ==
    /\ out.op = "VersionMeta.add"
    /\ IsNone(va.maintenance)
    /\ d1.maintenance = Some(-1)
    /\ d1.major = Some(1)
    /\ \A i \in 1..Len(AddFields) :
          AddFields[i] # "maintenance"
          => (IsNone(Resulting(AddFields[i])) \/ Get(Resulting(AddFields[i])) >= 0)
    /\ ~Returned(out.res)

-----------------------------------------------------------------------------
(* The frame of the calls, checked under SpecFrame *)

\* C13: a step that is a call (parse, compares, in_range, substitute or add,
\* returning or raising) leaves FlexVersion.ordered_suffix as it was, and
\* with it every field of the versions va and vb, of the delta d1 and the
\* string handed to the parser; ordered_suffix changes only in a step that
\* assigns it.
C13_Frame ==
    [][out'.op # "none"
       => /\ ordered_suffix' = ordered_suffix
          /\ va' = va
          /\ vb' = vb
          /\ d1' = d1
          /\ d2' = d2
          /\ inp' = inp]_vars

\* C13's case: under a configured suffix order, an addition has failed on
\* its second field, after the assignment of the major number, which the
\* receiver still holds as it was.
C13_Witness ==
    /\ out.op = "VersionMeta.add"
    /\ out.res.err = "AssertionError"
    /\ ~IsNone(ordered_suffix)
    /\ d1.major = Some(-1)
    /\ va.major = Some(1)

-----------------------------------------------------------------------------
(* Properties of the parser, checked under SpecParse *)

\* A string of the form [prefix-]major[-suffix] with no minor component:
\* no dot anywhere, and a run of digits between the start or a hyphen and
\* the end or a hyphen.
MajorOnly(s) ==
    /\ \A i \in 1..Len(s) : s[i] # "."
    /\ \E i \in 1..Len(s) :
          /\ DigitRun(s, i) >= 1
          /\ (i = 1 \/ s[i - 1] = "-")
          /\ (i + DigitRun(s, i) > Len(s) \/ s[i + DigitRun(s, i)] = "-")

\* C6: parsing a string with a major and no minor component succeeds, with
\* major set and minor, maintenance and build absent.
C6_MajorOnlyParses ==
    (out.op = "parse" /\ MajorOnly(inp))
    => /\ Returned(out.res)
       /\ ~IsNone(out.res.val.major)
       /\ IsNone(out.res.val.minor)
       /\ IsNone(out.res.val.maintenance)
       /\ IsNone(out.res.val.build)

-----------------------------------------------------------------------------
(* Properties of the delta algebra, checked under SpecDelta *)

Fields == {DeltaFields[i] : i \in 1..Len(DeltaFields)}

\* C7: d1 + d2 is field-wise: absent when both fields are absent, the
\* present value when just one is present, the sum when both are.
C7_AddAbsence ==
    out.op = "add"
    => \A f \in Fields :
         out.res[f] = (IF IsNone(d1[f]) THEN d2[f]
                       ELSE IF IsNone(d2[f]) THEN d1[f]
                       ELSE Some(Get(d1[f]) + Get(d2[f])))

\* C8: d1 * k is field-wise: a present field is the field times k, an
\* absent field stays absent.
C8_MulProduct ==
    out.op = "mul"
    => \A f \in Fields :
         out.res[f] = (IF IsNone(d1[f]) THEN None ELSE Some(Get(d1[f]) * out.k))

\* C9: bool(d1) is true exactly when some field of d1 is non-zero, an
\* absent field counting as zero.
C9_TruthIsNonZero ==
    out.op = "bool"
    => (out.res <=> \E f \in Fields : ~IsNone(d1[f]) /\ Get(d1[f]) # 0)

\* C10: with d2 = -d1, which negates every present field of d1 and leaves
\* the absent ones absent, d1 + d2 equals VersionDelta.zero.
C10_AddNegIsZero ==
    d2 = Delta__neg__(d1)
    => /\ \A f \in Fields :
            d2[f] = (IF IsNone(d1[f]) THEN None ELSE Some(0 - Get(d1[f])))
       /\ out.op = "add" => Delta__eq__(out.res, zero)

\* C10's case: d1 has a non-zero field and an absent one, and d1 + (-d1) has
\* been computed.
C10_Witness ==
    /\ out.op = "add"
    /\ d2 = Delta__neg__(d1)
    /\ d1.major = Some(1)
    /\ IsNone(d1.minor)
    /\ d1.sver = Some(-1)

=============================================================================
